---- MODULE Spec2Model ----
(***************************************************************************)
(* Promotion panel: the rule model, the committee aggregation, the         *)
(* approver decision and the evaluation lifecycle, as implemented by       *)
(* logic.py, db.py and the ui_*.py pages.                                   *)
(*                                                                         *)
(* Weights and thresholds are kept as exact hundredths (0.70 is 70).  For  *)
(* the weight tables of logic.py the float sums of up to seven votes fall  *)
(* on the same side of both thresholds as the exact sums.                  *)
(*                                                                         *)
(* A level path is the sequence of its tokens: the level names and the     *)
(* arrows between them.  A list of 8 ratings is a sequence of length 8:    *)
(* the code's index i is position i + 1.                                   *)
(***************************************************************************)
EXTENDS Integers, Sequences, FiniteSets, TLC

----------------------------------------------------------------------------
(* Bounds of the model *)

\* accounts 1..NumEvaluators are the non-admin users the administrator assigns
NumEvaluators == 2
\* accounts NumEvaluators+1 .. NumEvaluators+NumApprovers have role APPROVER
NumApprovers == 2
\* evaluations the administrator creates (AUTOINCREMENT ids 1..MaxEvals)
MaxEvals == 1
\* now_iso() values 0..MaxTime; the clock stops at MaxTime
MaxTime == 1
\* accounts 1..NumVoters are the ones assigned in the lifecycle specification
NumVoters == 1
\* concurrent runs of ensure_bootstrap_users
NumBootRuns == 3
\* script threads that call get_rules
NumThreads == 2

EvaluatorIds == 1..NumEvaluators
ApproverIds == (NumEvaluators + 1)..(NumEvaluators + NumApprovers)
UserIds == EvaluatorIds \cup ApproverIds
EvalIds == 1..MaxEvals
BootRuns == 1..NumBootRuns

----------------------------------------------------------------------------
(* Program constants: logic.py *)

NDims == 8
DimIdx == 0..(NDims - 1)

RATING_OPTIONS == <<"Demonstrated", "Partially Demonstrated", "Not Demonstrated">>
Ratings == {RATING_OPTIONS[i] : i \in 1..Len(RATING_OPTIONS)}

THRESHOLD_DEMO == 70
THRESHOLD_PARTIAL == 40

LEVEL_WEIGHTS ==
  ( "Senior Specialist" :>
      ( "Line Manager" :> 10 @@ "Second Line Manager" :> 35 @@ "OPD" :> 15
        @@ "HRBP" :> 20 @@ "External Stakeholder" :> 20 ) )
  @@
  ( "Lead Expert" :>
      ( "Line Manager" :> 10 @@ "Second Line Manager" :> 30 @@ "OPD" :> 10
        @@ "HRBP" :> 20 @@ "External Stakeholder 1" :> 15
        @@ "External Stakeholder 2" :> 15 ) )
  @@
  ( "Advanced Expert" :>
      ( "Line Manager" :> 10 @@ "Department Deputy" :> 30 @@ "OPD" :> 10
        @@ "HRBP" :> 20 @@ "External Stakeholder 1" :> 15
        @@ "External Stakeholder 2" :> 15 ) )
  @@
  ( "Principal" :>
      ( "Line Manager" :> 10 @@ "Department Deputy" :> 30 @@ "HR Deputy" :> 15
        @@ "HRBP Director" :> 15 @@ "External Stakeholder 1" :> 15
        @@ "External Stakeholder 2" :> 15 ) )
  @@
  ( "Distinguished" :>
      ( "Department Deputy" :> 10 @@ "CEO Deputy" :> 30 @@ "HR Deputy" :> 15
        @@ "HRBP Director" :> 15 @@ "External Stakeholder 1" :> 15
        @@ "External Stakeholder 2" :> 15 ) )

\* mutant: Principal is not gated
GatedLevels_only_top == {"Distinguished"}

\* the levels whose binding decision is the approver's
GatedLevels == {"Principal", "Distinguished"}

\* the arrows _ARROW_PAT accepts; level_path_to_target_level splits on the first two only
ARROW == "<U+2192>"
ASCII_ARROW == "->"

----------------------------------------------------------------------------
(* The rule source (Sheet2 of the rules workbook) is data outside the      *)
(* repository: the model draws the loaded Rules from RuleTables.           *)

DIMENSIONS ==
  << "Impact & Scope", "Problem Solving", "Collaboration & Influence",
     "Customer & Market", "Values & Culture", "Craft Depth",
     "Innovation & Systems", "Knowledge Sharing" >>

LEVEL_PATHS ==
  << <<"Specialist", ARROW, "Senior Specialist">>,
     <<"Senior Specialist", ARROW, "Lead Expert">>,
     <<"Lead Expert", ARROW, "Advanced Expert">>,
     <<"Advanced Expert", ARROW, "Principal">>,
     <<"Principal", ARROW, "Distinguished">> >>

LevelPathSet == {LEVEL_PATHS[i] : i \in 1..Len(LEVEL_PATHS)}

\* the first iteration's rule table, keyed by target level
LEVEL_RULES ==
  ( "Senior Specialist" :> [min_demo |-> 4, critical |-> {0, 4}] )
  @@ ( "Lead Expert" :> [min_demo |-> 6, critical |-> {0, 5}] )
  @@ ( "Advanced Expert" :> [min_demo |-> 7, critical |-> {0, 5}] )
  @@ ( "Principal" :> [min_demo |-> 0, critical |-> {}] )
  @@ ( "Distinguished" :> [min_demo |-> 0, critical |-> {}] )

\* rules a workbook may give to every level path alike
UniformRuleInputs ==
  { [min_demo |-> 0, critical |-> {}], [min_demo |-> 5, critical |-> {0, 4}] }

----------------------------------------------------------------------------
(* logic.py: pure functions *)

RECURSIVE JoinTokens(_)
JoinTokens(s) ==
  IF s = <<>> THEN ""
  ELSE IF Len(s) = 1 THEN s[1]
  ELSE s[1] \o " " \o JoinTokens(Tail(s))

\* "->" becomes the arrow, the path is split at the arrows, fewer than two
\* parts raise ValueError, the last part is the target level
level_path_to_target_level(level_path) ==
  LET lp == [i \in 1..Len(level_path) |->
               IF level_path[i] = ASCII_ARROW THEN ARROW ELSE level_path[i]]
      arrows == {i \in 1..Len(lp) : lp[i] = ARROW}
  IN IF arrows = {} THEN "ValueError"
     ELSE LET last == CHOOSE i \in arrows : \A k \in arrows : k <= i
          IN JoinTokens(SubSeq(lp, last + 1, Len(lp)))

allowed_evaluator_roles_by_level_path(level_path) ==
  LET target == level_path_to_target_level(level_path)
  IN IF target \notin DOMAIN LEVEL_WEIGHTS THEN {}
     ELSE DOMAIN LEVEL_WEIGHTS[target]

get_weight(level_path, evaluator_role) ==
  LET target == level_path_to_target_level(level_path)
  IN IF evaluator_role \in DOMAIN LEVEL_WEIGHTS[target]
     THEN LEVEL_WEIGHTS[target][evaluator_role]
     ELSE 0

\* mutant: a Partially Demonstrated rating carries its weight too
RECURSIVE aggregate_dimension_demo_weight_partial(_, _)
aggregate_dimension_demo_weight_partial(votes, level_path) ==
  IF votes = <<>> THEN 0
  ELSE (IF Head(votes)[2] # "Not Demonstrated"
        THEN get_weight(level_path, Head(votes)[1])
        ELSE 0)
       + aggregate_dimension_demo_weight_partial(Tail(votes), level_path)

\* votes: a sequence of <<role, rating>>
RECURSIVE aggregate_dimension_demo_weight(_, _)
aggregate_dimension_demo_weight(votes, level_path) ==
  IF votes = <<>> THEN 0
  ELSE (IF Head(votes)[2] = "Demonstrated"
        THEN get_weight(level_path, Head(votes)[1])
        ELSE 0)
       + aggregate_dimension_demo_weight(Tail(votes), level_path)

\* mutant: the thresholds are exclusive
dimension_result_from_demo_weight_strict(demo_weight) ==
  IF demo_weight > THRESHOLD_DEMO THEN "Demonstrated"
  ELSE IF demo_weight > THRESHOLD_PARTIAL THEN "Partially Demonstrated"
  ELSE "Not Demonstrated"

dimension_result_from_demo_weight(demo_weight) ==
  IF demo_weight >= THRESHOLD_DEMO THEN "Demonstrated"
  ELSE IF demo_weight >= THRESHOLD_PARTIAL THEN "Partially Demonstrated"
  ELSE "Not Demonstrated"

----------------------------------------------------------------------------
(* The store (db.py, one SQLite file) and the sessions *)

VARIABLES
  rules,               \* get_rules._cache: the Rules loaded from the workbook
  users,               \* ids of the rows of table users
  accounts,            \* the rows of table users: [id, username, role, by]
  boot,                \* run of ensure_bootstrap_users -> [pc, k]
  overwritten,         \* history: the keys of the vote rows written over an earlier row
  evaluations,         \* id -> [level_path, target_level, status]
  assignments,         \* <<evaluation_id, user_id>> -> evaluator_role
  responses,           \* <<evaluation_id, user_id>> -> [dims]
  approver_responses,  \* evaluation_id -> [approver_user_id, dims]
  decisions,           \* evaluation_id -> [committee_decision, final_decision, decided_by, decided_at]
  now,                 \* the value now_iso() returns
  ev_form,             \* evaluator session: the evaluation whose Submit click passed the page's checks (0: none)
  appr,                \* approver session: [pc, eval_id, final_decision]
  workbook,            \* Sheet2 of the rules workbook
  loads,               \* history: the number of Rules instances load_rules_from_sheet2 has returned
  cache_id,            \* the instance in get_rules._cache (0: no _cache attribute)
  getter               \* thread -> [pc, loaded, loaded_id, got]: its call of get_rules

store == <<users, accounts, evaluations, assignments, responses, approver_responses,
          decisions>>
vars == <<rules, users, accounts, boot, overwritten, evaluations, assignments, responses,
          approver_responses, decisions, now, ev_form, appr, workbook, loads, cache_id,
          getter>>

EmptyTable == [k \in {} |-> 0]
Put(t, k, row) == [x \in (DOMAIN t) \cup {k} |-> IF x = k THEN row ELSE t[x]]
Without(t, ks) == [x \in (DOMAIN t) \ ks |-> t[x]]

\* the elements of a set of integers in ascending order
RECURSIVE SeqOfSet(_)
SeqOfSet(S) ==
  IF S = {} THEN <<>>
  ELSE LET m == CHOOSE x \in S : \A y \in S : x <= y
       IN <<m>> \o SeqOfSet(S \ {m})

\* NULL of decided_by and of decided_at
NoUser == 0
NoTime == 0 - 1

\* auth.py 35-48, 74-76: the accounts ensure_bootstrap_users creates, with the
\* default user names
BOOTSTRAP ==
  << [username |-> "admin", role |-> "ADMIN"],
     [username |-> "hrbp", role |-> "HRBP"],
     [username |-> "approver", role |-> "APPROVER"] >>

----------------------------------------------------------------------------
(* db.py: reads *)

\* user ids of the rows (assignments JOIN users) of the evaluation
list_assignments_for_evaluation(eval_id) ==
  {u \in users : <<eval_id, u>> \in DOMAIN assignments}

\* user ids of the rows (responses JOIN users JOIN assignments) of the evaluation
list_responses_for_evaluation(eval_id) ==
  {u \in users : /\ <<eval_id, u>> \in DOMAIN responses
                 /\ <<eval_id, u>> \in DOMAIN assignments}

get_assignment(eval_id, user_id) ==
  user_id \in users /\ <<eval_id, user_id>> \in DOMAIN assignments

get_response(eval_id, user_id) == <<eval_id, user_id>> \in DOMAIN responses

get_approver_response(eval_id) == eval_id \in DOMAIN approver_responses

list_evaluations(status) ==
  {e \in DOMAIN evaluations : evaluations[e].status = status}

----------------------------------------------------------------------------
(* logic.py: the engines *)

\* mutant: the number of Demonstrated results must equal the minimum
decision_from_dimension_results_exact(results, level_path) ==
  LET critical == rules.critical_by_path[level_path]
      min_demo == rules.min_demo_by_path[level_path]
      demo_count == Cardinality({i \in 1..Len(results) : results[i] = "Demonstrated"})
  IN IF \E idx \in critical : results[idx + 1] # "Demonstrated" THEN "Reject"
     ELSE IF demo_count = min_demo THEN "Confirmed"
     ELSE "Reject"

\* mutant: the critical dimensions are not looked at
decision_from_dimension_results_no_veto(results, level_path) ==
  LET min_demo == rules.min_demo_by_path[level_path]
      demo_count == Cardinality({i \in 1..Len(results) : results[i] = "Demonstrated"})
  IN IF demo_count >= min_demo THEN "Confirmed" ELSE "Reject"

\* mutant: the minimum must be exceeded
decision_from_dimension_results_strict(results, level_path) ==
  LET critical == rules.critical_by_path[level_path]
      min_demo == rules.min_demo_by_path[level_path]
      demo_count == Cardinality({i \in 1..Len(results) : results[i] = "Demonstrated"})
  IN IF \E idx \in critical : results[idx + 1] # "Demonstrated" THEN "Reject"
     ELSE IF demo_count > min_demo THEN "Confirmed"
     ELSE "Reject"

decision_from_dimension_results(results, level_path) ==
  LET critical == rules.critical_by_path[level_path]
      min_demo == rules.min_demo_by_path[level_path]
      demo_count == Cardinality({i \in 1..Len(results) : results[i] = "Demonstrated"})
  IN IF \E idx \in critical : results[idx + 1] # "Demonstrated" THEN "Reject"
     ELSE IF demo_count >= min_demo THEN "Confirmed"
     ELSE "Reject"

\* mutant: pending also while nobody is assigned
votes_pending_when_unassigned(all_assigned, responded) ==
  all_assigned = {} \/ responded # all_assigned

\* mutant: pending only while nobody has submitted
votes_pending_until_first(all_assigned, responded) ==
  all_assigned # {} /\ responded = {}

\* line 285: pending if not all assigned submitted
votes_pending(all_assigned, responded) ==
  all_assigned # {} /\ responded # all_assigned

\* line 294, 299: role_by_user.get(uid, "")
role_by_user(eval_id, uid) ==
  IF uid \in list_assignments_for_evaluation(eval_id)
  THEN assignments[<<eval_id, uid>>]
  ELSE ""

\* lines 296-302: the <<role, rating>> votes of dimension index i, rows being
\* the user ids of the responses in the order of the query
per_dim_votes(eval_id, rows, i) ==
  [k \in 1..Len(rows) |->
     <<role_by_user(eval_id, rows[k]), responses[<<eval_id, rows[k]>>].dims[i + 1]>>]

committee_aggregate(eval_id) ==
  LET ev == evaluations[eval_id]
      level_path == ev.level_path
      target_level == ev.target_level
      all_assigned == list_assignments_for_evaluation(eval_id)
      responded == list_responses_for_evaluation(eval_id)
      rows == SeqOfSet(responded)
  IN IF votes_pending(all_assigned, responded)
     THEN [per_dim |-> <<>>,
           committee_decision |-> "Pending",
           missing_count |-> Cardinality(all_assigned \ responded),
           responded_count |-> Cardinality(responded),
           assigned_count |-> Cardinality(all_assigned)]
     ELSE LET dw == [i \in DimIdx |->
                       aggregate_dimension_demo_weight(
                         per_dim_votes(eval_id, rows, i), level_path)]
              dim_results == [k \in 1..NDims |->
                                dimension_result_from_demo_weight(dw[k - 1])]
              per_dim_out == [k \in 1..NDims |->
                                [dimension |-> rules.dimensions[k],
                                 demo_weight |-> dw[k - 1],
                                 result |-> dim_results[k]]]
          IN [per_dim |-> per_dim_out,
              committee_decision |->
                IF target_level \in GatedLevels THEN "RecommendationOnly"
                ELSE decision_from_dimension_results(dim_results, level_path),
              missing_count |-> 0,
              responded_count |-> Cardinality(responded),
              assigned_count |-> Cardinality(all_assigned)]

\* mutant: the rule is applied to the committee's aggregated results
approver_final_decision_aggregated(eval_id) ==
  IF ~get_approver_response(eval_id)
  THEN [final_decision |-> "Pending", per_dim |-> <<>>]
  ELSE LET agg == committee_aggregate(eval_id)
           dims == [k \in 1..NDims |->
                      IF agg.per_dim = <<>> THEN "Not Demonstrated"
                      ELSE agg.per_dim[k].result]
       IN [final_decision |->
             decision_from_dimension_results(dims, evaluations[eval_id].level_path),
           per_dim |-> [k \in 1..NDims |->
                          [dimension |-> rules.dimensions[k], result |-> dims[k]]]]

approver_final_decision(eval_id) ==
  IF ~get_approver_response(eval_id)
  THEN [final_decision |-> "Pending", per_dim |-> <<>>]
  ELSE LET dims == approver_responses[eval_id].dims
       IN [final_decision |->
             decision_from_dimension_results(dims, evaluations[eval_id].level_path),
           per_dim |-> [k \in 1..NDims |->
                          [dimension |-> rules.dimensions[k], result |-> dims[k]]]]

----------------------------------------------------------------------------
(* db.py: writes, each one transaction *)

\* the statement of create_evaluation that raises, "" if none does
RaiseInputs == {"", "evaluations", "decisions"}

\* mutant: each INSERT is committed on its own
create_evaluation_two_commits(eval_id, level_path, target_level, raises) ==
  /\ evaluations' = IF raises = "evaluations" THEN evaluations
                    ELSE Put(evaluations, eval_id,
                             [level_path |-> level_path, target_level |-> target_level,
                              status |-> "OPEN"])
  /\ decisions' = IF raises # "" \/ eval_id \in DOMAIN decisions THEN decisions
                  ELSE Put(decisions, eval_id,
                           [committee_decision |-> "Pending", final_decision |-> "Pending",
                            decided_by |-> NoUser, decided_at |-> NoTime])

\* both INSERTs run in one get_conn block, which commits after the second: a
\* statement that raises leaves the block before the commit
create_evaluation(eval_id, level_path, target_level, raises) ==
  /\ evaluations' = IF raises # "" THEN evaluations
                    ELSE Put(evaluations, eval_id,
                             [level_path |-> level_path, target_level |-> target_level,
                              status |-> "OPEN"])
  /\ decisions' = IF raises # "" \/ eval_id \in DOMAIN decisions THEN decisions
                  ELSE Put(decisions, eval_id,
                           [committee_decision |-> "Pending", final_decision |-> "Pending",
                            decided_by |-> NoUser, decided_at |-> NoTime])

set_evaluation_status(eval_id, status) ==
  evaluations' = [e \in DOMAIN evaluations |->
                    IF e = eval_id THEN [evaluations[e] EXCEPT !.status = status]
                    ELSE evaluations[e]]

create_assignment(eval_id, user_id, evaluator_role) ==
  assignments' = Put(assignments, <<eval_id, user_id>>, evaluator_role)

\* history: key is recorded when the write replaces a stored row
mark_overwritten(key, replaces) ==
  overwritten' = IF replaces THEN overwritten \cup {key} ELSE overwritten

\* mutant: the DO UPDATE list leaves out the comment
upsert_response_keeps_comment(eval_id, user_id, dims, comment) ==
  LET k == <<eval_id, user_id>>
  IN /\ responses' =
          IF Len(dims) = NDims
          THEN Put(responses, k,
                   [dims |-> dims,
                    comment |-> IF k \in DOMAIN responses THEN responses[k].comment
                                ELSE comment])
          ELSE responses
     /\ mark_overwritten(<<"responses", eval_id, user_id>>,
                         Len(dims) = NDims /\ k \in DOMAIN responses
                           /\ responses[k].dims # dims)

\* mutant: the conflict target is the evaluation alone
upsert_response_per_evaluation(eval_id, user_id, dims, comment) ==
  LET k == <<eval_id, user_id>>
  IN /\ responses' =
          IF Len(dims) = NDims
          THEN Put(Without(responses, {x \in DOMAIN responses : x[1] = eval_id}), k,
                   [dims |-> dims, comment |-> comment])
          ELSE responses
     /\ mark_overwritten(<<"responses", eval_id, user_id>>,
                         Len(dims) = NDims /\ k \in DOMAIN responses
                           /\ responses[k].dims # dims)

\* the statement binds dim1..dim8 from *dims: another number of values raises
\* before anything is written
upsert_response(eval_id, user_id, dims, comment) ==
  LET k == <<eval_id, user_id>>
  IN /\ responses' =
          IF Len(dims) = NDims
          THEN Put(responses, k, [dims |-> dims, comment |-> comment])
          ELSE responses
     /\ mark_overwritten(<<"responses", eval_id, user_id>>,
                         Len(dims) = NDims /\ k \in DOMAIN responses
                           /\ responses[k].dims # dims)

\* mutant: the DO UPDATE list leaves out approver_user_id
upsert_approver_response_keeps_approver(eval_id, approver_user_id, dims, comment) ==
  /\ approver_responses' =
       IF Len(dims) = NDims
       THEN Put(approver_responses, eval_id,
                [approver_user_id |->
                   IF eval_id \in DOMAIN approver_responses
                   THEN approver_responses[eval_id].approver_user_id
                   ELSE approver_user_id,
                 dims |-> dims, comment |-> comment])
       ELSE approver_responses
  /\ mark_overwritten(<<"approver_responses", eval_id>>,
                      Len(dims) = NDims /\ eval_id \in DOMAIN approver_responses
                        /\ approver_responses[eval_id].approver_user_id # approver_user_id)

upsert_approver_response(eval_id, approver_user_id, dims, comment) ==
  /\ approver_responses' =
       IF Len(dims) = NDims
       THEN Put(approver_responses, eval_id,
                [approver_user_id |-> approver_user_id, dims |-> dims,
                 comment |-> comment])
       ELSE approver_responses
  /\ mark_overwritten(<<"approver_responses", eval_id>>,
                      Len(dims) = NDims /\ eval_id \in DOMAIN approver_responses
                        /\ approver_responses[eval_id].approver_user_id # approver_user_id)

\* "None" stands for an argument left at its default
set_decision(eval_id, committee_decision, final_decision, decided_by) ==
  LET d0 == decisions[eval_id]
      d1 == IF committee_decision # "None"
            THEN [d0 EXCEPT !.committee_decision = committee_decision] ELSE d0
      d2 == IF final_decision # "None"
            THEN [d1 EXCEPT !.final_decision = final_decision,
                            !.decided_by = decided_by, !.decided_at = now]
            ELSE d1
  IN /\ decisions' = IF eval_id \in DOMAIN decisions
                     THEN [decisions EXCEPT ![eval_id] = d2] ELSE decisions
     /\ now' = IF final_decision # "None" /\ now < MaxTime THEN now + 1 ELSE now

delete_user(user_id) ==
  /\ responses' = Without(responses, {k \in DOMAIN responses : k[2] = user_id})
  /\ assignments' = Without(assignments, {k \in DOMAIN assignments : k[2] = user_id})
  /\ approver_responses' =
       Without(approver_responses,
               {e \in DOMAIN approver_responses :
                  approver_responses[e].approver_user_id = user_id})
  /\ users' = users \ {user_id}
  /\ accounts' = {r \in accounts : r.id # user_id}
  /\ overwritten' =
       {k \in overwritten :
          IF k[1] = "responses" THEN k[3] # user_id
          ELSE k[2] \in DOMAIN approver_responses
                 => approver_responses[k[2]].approver_user_id # user_id}

----------------------------------------------------------------------------
(* Inputs *)

RuleTable(rule_of_target) ==
  [dimensions |-> DIMENSIONS,
   level_paths |-> LEVEL_PATHS,
   min_demo_by_path |->
     [p \in LevelPathSet |-> rule_of_target[level_path_to_target_level(p)].min_demo],
   critical_by_path |->
     [p \in LevelPathSet |-> rule_of_target[level_path_to_target_level(p)].critical]]

\* the first iteration's table, and the tables giving every level one rule
RuleTables ==
  {RuleTable(LEVEL_RULES)}
  \cup {RuleTable([t \in DOMAIN LEVEL_WEIGHTS |-> r]) : r \in UniformRuleInputs}

\* dimension indices 0..k-1 rated Demonstrated, the others rated filler
PrefixVote(k, filler) ==
  [i \in 1..NDims |-> IF i <= k THEN "Demonstrated" ELSE filler]

\* the votes of the lifecycle specification
RatingInputs == {PrefixVote(NDims, "Demonstrated"), PrefixVote(0, "Partially Demonstrated")}

\* the votes of the aggregation specification
AggRatingInputs ==
  {PrefixVote(k, "Partially Demonstrated") : k \in {0, 4, 5, NDims}}
  \cup {PrefixVote(4, "Not Demonstrated")}

\* every dimension rated Demonstrated except dimension index i0
AllBut(i0, rating) ==
  [i \in 1..NDims |-> IF i = i0 + 1 THEN rating ELSE "Demonstrated"]

\* the approver's ratings of the approver specification
ApprRatingInputs ==
  AggRatingInputs \cup {AllBut(0, "Partially Demonstrated"), AllBut(7, "Not Demonstrated")}

\* the ratings passed to upsert_approver_response in the store
\* specification: a list from the form, a list of 8 values outside
\* RATING_OPTIONS, and a list of 7 ratings
DbRatingInputs ==
  {PrefixVote(NDims, "Demonstrated"),
   [i \in 1..NDims |-> "Excellent"],
   [i \in 1..(NDims - 1) |-> "Demonstrated"]}

\* the rule table and the level paths of the lifecycle specification
LifecycleRuleTables ==
  {RuleTable([t \in DOMAIN LEVEL_WEIGHTS |-> [min_demo |-> 5, critical |-> {0, 4}]])}
LifecyclePathInputs == {LEVEL_PATHS[1], LEVEL_PATHS[4]}
VoterIds == 1..NumVoters

\* the text of the optional comment box
CommentInputs == {"", "comment"}
LifecycleComments == {""}

\* the evaluator roles the administrator picks in the lifecycle specification
RoleInputs == {"HRBP", "HRBP Director"}

\* the evaluator roles the administrator picks in the aggregation specification
AggRoleInputs == {"Second Line Manager", "CEO Deputy", "HRBP", "HRBP Director"}

----------------------------------------------------------------------------
(* ui_admin.py: the administrator's handlers *)

\* tab Create Evaluation, lines 383-399
CreateEvaluation(level_path, raises) ==
  LET eval_id == Cardinality(DOMAIN evaluations) + 1
      target_level == level_path_to_target_level(level_path)
  IN /\ eval_id <= MaxEvals
     /\ \E i \in 1..Len(rules.level_paths) : rules.level_paths[i] = level_path
     /\ target_level # "ValueError"
     /\ create_evaluation(eval_id, level_path, target_level, raises)
     /\ UNCHANGED <<workbook, loads, cache_id, getter, rules, users, accounts, boot, overwritten, assignments, responses, approver_responses, now,
                    ev_form, appr>>

\* tab Assign Evaluators, lines 423-451
AdminAssign(eval_id, user_id, evaluator_role) ==
  /\ eval_id \in DOMAIN evaluations
  /\ user_id \in users
  /\ evaluator_role \in allowed_evaluator_roles_by_level_path(evaluations[eval_id].level_path)
  /\ create_assignment(eval_id, user_id, evaluator_role)
  /\ UNCHANGED <<workbook, loads, cache_id, getter, rules, users, accounts, boot, overwritten, evaluations, responses, approver_responses, decisions,
                 now, ev_form, appr>>

\* tab Users, lines 364-370
AdminDeleteUser(user_id) ==
  /\ user_id \in users
  /\ delete_user(user_id)
  /\ UNCHANGED <<workbook, loads, cache_id, getter, rules, boot, evaluations, decisions, now, ev_form, appr>>

\* tab Monitor & Close, lines 525-528: the click's committee_aggregate and its save
AdminRecompute(eval_id) ==
  /\ eval_id \in DOMAIN evaluations
  /\ set_decision(eval_id, committee_aggregate(eval_id).committee_decision, "None", NoUser)
  /\ UNCHANGED <<workbook, loads, cache_id, getter, rules, users, accounts, boot, overwritten, evaluations, assignments, responses, approver_responses,
                 ev_form, appr>>

\* mutant: the button is shown for every level
AdminMoveToApprover_any_level(eval_id) ==
  /\ eval_id \in DOMAIN evaluations
  /\ set_evaluation_status(eval_id, "READY_FOR_APPROVER")
  /\ UNCHANGED <<workbook, loads, cache_id, getter, rules, users, accounts, boot, overwritten, assignments, responses, approver_responses, decisions,
                 now, ev_form, appr>>

\* lines 530-534
AdminMoveToApprover(eval_id) ==
  /\ eval_id \in DOMAIN evaluations
  /\ evaluations[eval_id].target_level \in GatedLevels
  /\ set_evaluation_status(eval_id, "READY_FOR_APPROVER")
  /\ UNCHANGED <<workbook, loads, cache_id, getter, rules, users, accounts, boot, overwritten, assignments, responses, approver_responses, decisions,
                 now, ev_form, appr>>

\* lines 535-539
AdminClose(eval_id) ==
  /\ eval_id \in DOMAIN evaluations
  /\ evaluations[eval_id].target_level \notin GatedLevels
  /\ set_evaluation_status(eval_id, "CLOSED")
  /\ UNCHANGED <<workbook, loads, cache_id, getter, rules, users, accounts, boot, overwritten, assignments, responses, approver_responses, decisions,
                 now, ev_form, appr>>

----------------------------------------------------------------------------
(* ui_evaluator.py (and tab My Evaluations of ui_hrbp.py): a Submit click  *)
(* reruns the page, whose reads and whose write are separate transactions  *)

\* lines 20-60 and 82: the reads that leave the Submit button enabled
EvaluatorOpen(user_id, eval_id) ==
  /\ ev_form[user_id] = 0
  /\ eval_id \in DOMAIN evaluations
  /\ get_assignment(eval_id, user_id)
  /\ ~get_response(eval_id, user_id)
  /\ evaluations[eval_id].status # "CLOSED"
  /\ ev_form' = [ev_form EXCEPT ![user_id] = eval_id]
  /\ UNCHANGED <<workbook, loads, cache_id, getter, rules, boot, overwritten, store, now, appr>>

\* lines 84-87
EvaluatorSubmit(user_id, dims, comment) ==
  /\ ev_form[user_id] # 0
  /\ upsert_response(ev_form[user_id], user_id, dims, comment)
  /\ ev_form' = [ev_form EXCEPT ![user_id] = 0]
  /\ UNCHANGED <<workbook, loads, cache_id, getter, rules, users, accounts, boot, evaluations, assignments, approver_responses, decisions,
                 now, appr>>

----------------------------------------------------------------------------
(* ui_approver.py: a "Submit final decision" click reruns the page; its    *)
(* reads and its three writes are separate transactions                    *)

ApprIdle == [pc |-> "idle", eval_id |-> 0, final_decision |-> "None"]

\* mutant: rendering the aggregate saves it
ApproverOpen_saves(a, eval_id) ==
  /\ appr[a].pc = "idle"
  /\ eval_id \in list_evaluations("READY_FOR_APPROVER")
  /\ list_responses_for_evaluation(eval_id) # {}
  /\ committee_aggregate(eval_id).committee_decision # "Pending"
  /\ set_decision(eval_id, committee_aggregate(eval_id).committee_decision, "None", NoUser)
  /\ appr' = [appr EXCEPT ![a] = [pc |-> "form", eval_id |-> eval_id,
                                  final_decision |-> "None"]]
  /\ UNCHANGED <<workbook, loads, cache_id, getter, rules, users, accounts, boot, overwritten, evaluations, assignments, responses,
                 approver_responses, ev_form>>

\* lines 15-59: the reads that lead to the form
ApproverOpen(a, eval_id) ==
  /\ appr[a].pc = "idle"
  /\ eval_id \in list_evaluations("READY_FOR_APPROVER")
  /\ list_responses_for_evaluation(eval_id) # {}
  /\ committee_aggregate(eval_id).committee_decision # "Pending"
  /\ appr' = [appr EXCEPT ![a] = [pc |-> "form", eval_id |-> eval_id,
                                  final_decision |-> "None"]]
  /\ UNCHANGED <<workbook, loads, cache_id, getter, rules, boot, overwritten, store, now, ev_form>>

\* line 98
ApproverUpsert(a, final_dims, comment) ==
  /\ appr[a].pc = "form"
  /\ upsert_approver_response(appr[a].eval_id, a, final_dims, comment)
  /\ appr' = [appr EXCEPT ![a].pc = "upserted"]
  /\ UNCHANGED <<workbook, loads, cache_id, getter, rules, users, accounts, boot, evaluations, assignments, responses, decisions, now,
                 ev_form>>

\* line 100
ApproverCompute(a) ==
  /\ appr[a].pc = "upserted"
  /\ appr' = [appr EXCEPT ![a].pc = "computed",
                          ![a].final_decision =
                            approver_final_decision(appr[a].eval_id).final_decision]
  /\ UNCHANGED <<workbook, loads, cache_id, getter, rules, boot, overwritten, store, now, ev_form>>

\* line 101
ApproverSetDecision(a) ==
  /\ appr[a].pc = "computed"
  /\ set_decision(appr[a].eval_id, "None", appr[a].final_decision, a)
  /\ appr' = [appr EXCEPT ![a].pc = "decided"]
  /\ UNCHANGED <<workbook, loads, cache_id, getter, rules, users, accounts, boot, overwritten, evaluations, assignments, responses, approver_responses,
                 ev_form>>

\* line 102
ApproverClose(a) ==
  /\ appr[a].pc = "decided"
  /\ set_evaluation_status(appr[a].eval_id, "CLOSED")
  /\ appr' = [appr EXCEPT ![a] = ApprIdle]
  /\ UNCHANGED <<workbook, loads, cache_id, getter, rules, users, accounts, boot, overwritten, assignments, responses, approver_responses, decisions,
                 now, ev_form>>

----------------------------------------------------------------------------
(* logic.py: the rule loader.  Sheet2 of the workbook is a record of cells: *)
(* header (B11:F11), dims (A12:A19), matrix (B12:F19, keyed by <<dimension  *)
(* index, column>>) and min_rows (A25:B29).  A cell is empty, a number (in  *)
(* tenths) or a text; a text is the sequence of its words, <<>> when blank. *)

\* range(2, 7): the columns B..F, and range(25, 30): the rows 25..29
NumPaths == 5
PathCols == 1..NumPaths

NoneCell == [kind |-> "none"]
Num(tenths) == [kind |-> "number", tenths |-> tenths]
Text(tokens) == [kind |-> "text", tokens |-> tokens]

\* the arrows of _ARROW_PAT that level_path_to_target_level does not split at
HEAVY_ARROW == "<U+279C>"
DOUBLE_ARROW == "<U+21D2>"
ArrowTokens == {ARROW, ASCII_ARROW, HEAVY_ARROW, DOUBLE_ARROW}

\* the digits, ASCII and Persian, as words
DigitToken == <<"0", "1", "2", "3", "4", "5", "6", "7", "8", "9">>
PersianDigitToken ==
  << "<U+06F0>", "<U+06F1>", "<U+06F2>", "<U+06F3>", "<U+06F4>",
     "<U+06F5>", "<U+06F6>", "<U+06F7>", "<U+06F8>", "<U+06F9>" >>

\* Optional[int]: None
NoInt == 0 - 1

\* str(v).strip(): a number is written as one word
_norm(v) ==
  IF v.kind = "none" THEN <<>>
  ELSE IF v.kind = "text" THEN v.tokens
  ELSE IF v.tenths % 10 = 0 /\ v.tenths \div 10 < Len(DigitToken)
       THEN <<DigitToken[(v.tenths \div 10) + 1]>>
       ELSE <<"<number>">>

_has_arrow(s) == \E i \in 1..Len(s) : s[i] \in ArrowTokens

_persian_to_english_digits(s) ==
  [i \in 1..Len(s) |->
     IF \E d \in 1..Len(PersianDigitToken) : PersianDigitToken[d] = s[i]
     THEN DigitToken[CHOOSE d \in 1..Len(PersianDigitToken) : PersianDigitToken[d] = s[i]]
     ELSE s[i]]

\* the first number of the text (numbers are words of one digit here)
_extract_first_int(s) ==
  LET s2 == _persian_to_english_digits(s)
      hits == {i \in 1..Len(s2) : \E d \in 1..Len(DigitToken) : DigitToken[d] = s2[i]}
  IN IF hits = {} THEN NoInt
     ELSE LET first == CHOOSE i \in hits : \A k \in hits : i <= k
          IN (CHOOSE d \in 1..Len(DigitToken) : DigitToken[d] = s2[first]) - 1

\* .replace("->", arrow)
replace_ascii_arrow(s) ==
  [i \in 1..Len(s) |-> IF s[i] = ASCII_ARROW THEN ARROW ELSE s[i]]

\* lines 180-187: val of one cell of the critical matrix; int() truncates
critical_cell_value(raw) ==
  IF raw.kind = "number" THEN raw.tenths \div 10
  ELSE IF _norm(raw) = <<"1">> THEN 1
  ELSE IF _norm(raw) = <<"0">> THEN 0
  ELSE NoInt

\* the Rules before the first load
NoRules ==
  [dimensions |-> <<>>, level_paths |-> <<>>, min_demo_by_path |-> EmptyTable,
   critical_by_path |-> EmptyTable]

\* the result is [raises, value]: raises is "ValueError" or "", value the Rules
load_rules_from_sheet2(wb) ==
  LET level_paths == [c \in PathCols |-> replace_ascii_arrow(_norm(wb.header[c]))]
      path_error == \E c \in PathCols :
                      level_paths[c] = <<>> \/ ~_has_arrow(level_paths[c])
      dim_error == \E k \in 1..NDims : _norm(wb.dims[k]) = <<>>
      dimensions == [k \in 1..NDims |-> JoinTokens(_norm(wb.dims[k]))]
      paths == {level_paths[c] : c \in PathCols}
      critical_by_path ==
        [p \in paths |->
           {i \in DimIdx : \E j \in PathCols :
              level_paths[j] = p /\ critical_cell_value(wb.matrix[<<i, j>>]) = 1}]
      row_path(k) == replace_ascii_arrow(_norm(wb.min_rows[k].path))
      row_int(k) == _extract_first_int(_norm(wb.min_rows[k].cell))
      rows == {k \in PathCols : row_path(k) # <<>>}
      min_error == \E k \in rows : row_int(k) = NoInt
      row_paths == {row_path(k) : k \in rows}
      min_demo_by_path ==
        [p \in row_paths |->
           row_int(CHOOSE k \in rows : row_path(k) = p
                                       /\ \A k2 \in rows : row_path(k2) = p => k2 <= k)]
      missing == paths \ row_paths
  IN IF path_error \/ dim_error \/ min_error \/ missing # {}
     THEN [raises |-> "ValueError", value |-> NoRules]
     ELSE [raises |-> "",
           value |-> [dimensions |-> dimensions, level_paths |-> level_paths,
                      min_demo_by_path |-> min_demo_by_path,
                      critical_by_path |-> critical_by_path]]

\* the sheet whose load gives the Rules r
Sheet2Of(r) ==
  [header |-> [c \in PathCols |-> Text(r.level_paths[c])],
   dims |-> [k \in 1..NDims |-> Text(<<r.dimensions[k]>>)],
   matrix |-> [x \in DimIdx \X PathCols |->
                 Num(IF x[1] \in r.critical_by_path[r.level_paths[x[2]]]
                     THEN 10 ELSE 0)],
   min_rows |-> [k \in PathCols |->
                   [path |-> Text(r.level_paths[k]),
                    cell |-> Text(<<DigitToken[r.min_demo_by_path[r.level_paths[k]] + 1]>>)]]]

\* logic.py 217-220: get_rules, called by the script threads of the sessions
Threads == 1..NumThreads
GetterIdle == [pc |-> "idle", loaded |-> NoRules, loaded_id |-> 0, got |-> 0]

\* line 218: hasattr(get_rules, "_cache")
GetRulesCheck(t) ==
  /\ getter[t].pc = "idle"
  /\ getter' = [getter EXCEPT ![t].pc = IF cache_id = 0 THEN "load" ELSE "return"]
  /\ UNCHANGED <<workbook, loads, cache_id, rules, boot, overwritten, store, now,
                 ev_form, appr>>

\* line 219: the call of load_rules_from_sheet2, which returns a new Rules
\* or raises through get_rules
GetRulesLoad(t) ==
  /\ getter[t].pc = "load"
  /\ LET r == load_rules_from_sheet2(workbook)
     IN IF r.raises # ""
        THEN /\ getter' = [getter EXCEPT ![t].pc = "raised"]
             /\ loads' = loads
        ELSE /\ getter' = [getter EXCEPT ![t].pc = "set", ![t].loaded = r.value,
                                         ![t].loaded_id = loads + 1]
             /\ loads' = loads + 1
  /\ UNCHANGED <<workbook, cache_id, rules, boot, overwritten, store, now, ev_form,
                 appr>>

\* line 219: setattr(get_rules, "_cache", ...)
GetRulesSet(t) ==
  /\ getter[t].pc = "set"
  /\ rules' = getter[t].loaded
  /\ cache_id' = getter[t].loaded_id
  /\ getter' = [getter EXCEPT ![t].pc = "return"]
  /\ UNCHANGED <<workbook, loads, boot, overwritten, store, now, ev_form, appr>>

\* line 220: getattr(get_rules, "_cache")
GetRulesReturn(t) ==
  /\ getter[t].pc = "return"
  /\ getter' = [getter EXCEPT ![t].pc = "done", ![t].got = cache_id]
  /\ UNCHANGED <<workbook, loads, cache_id, rules, boot, overwritten, store, now,
                 ev_form, appr>>

\* the process after every session has called get_rules on the sheet of rules
InitLoaded ==
  /\ workbook = Sheet2Of(rules)
  /\ loads = 1
  /\ cache_id = 1
  /\ getter = [t \in Threads |-> [pc |-> "done", loaded |-> NoRules, loaded_id |-> 0,
                                  got |-> 1]]

----------------------------------------------------------------------------
(* Specifications *)

InitSessions ==
  /\ ev_form = [u \in EvaluatorIds |-> 0]
  /\ appr = [a \in ApproverIds |-> ApprIdle]

\* the rows of table users once the administrator has created the accounts;
\* ensure_bootstrap_users has run
InitAccounts ==
  /\ users = UserIds
  /\ accounts = {[id |-> u, username |-> <<"user", u>>,
                  role |-> IF u \in EvaluatorIds THEN "EVALUATOR" ELSE "APPROVER",
                  by |-> 0] : u \in UserIds}
  /\ boot = [i \in BootRuns |-> [pc |-> "done", k |-> Len(BOOTSTRAP)]]
  /\ overwritten = {}

\* the store after init_db and the creation of the accounts
Init ==
  /\ rules \in LifecycleRuleTables
  /\ InitAccounts
  /\ evaluations = EmptyTable
  /\ assignments = EmptyTable
  /\ responses = EmptyTable
  /\ approver_responses = EmptyTable
  /\ decisions = EmptyTable
  /\ now = 0
  /\ InitSessions
  /\ InitLoaded

Next ==
  \/ \E p \in LifecyclePathInputs, x \in RaiseInputs : CreateEvaluation(p, x)
  \/ \E e \in EvalIds, u \in VoterIds, r \in RoleInputs : AdminAssign(e, u, r)
  \/ \E u \in VoterIds \cup ApproverIds : AdminDeleteUser(u)
  \/ \E e \in EvalIds : AdminRecompute(e)
  \/ \E e \in EvalIds : AdminMoveToApprover(e)
  \/ \E e \in EvalIds : AdminClose(e)
  \/ \E u \in VoterIds, e \in EvalIds : EvaluatorOpen(u, e)
  \/ \E u \in VoterIds, d \in RatingInputs, c \in LifecycleComments : EvaluatorSubmit(u, d, c)
  \/ \E a \in ApproverIds, e \in EvalIds : ApproverOpen(a, e)
  \/ \E a \in ApproverIds, d \in RatingInputs, c \in LifecycleComments : ApproverUpsert(a, d, c)
  \/ \E a \in ApproverIds : ApproverCompute(a)
  \/ \E a \in ApproverIds : ApproverSetDecision(a)
  \/ \E a \in ApproverIds : ApproverClose(a)

Spec == Init /\ [][Next]_vars

\* The aggregation specification: one evaluation of any level path, whose
\* assignments and votes are built by the administrator's and the
\* evaluators' handlers from the wider inputs.
InitAgg ==
  /\ rules \in RuleTables
  /\ InitAccounts
  /\ \E p \in LevelPathSet :
       evaluations = Put(EmptyTable, 1,
                         [level_path |-> p,
                          target_level |-> level_path_to_target_level(p),
                          status |-> "OPEN"])
  /\ assignments = EmptyTable
  /\ responses = EmptyTable
  /\ approver_responses = EmptyTable
  /\ decisions = Put(EmptyTable, 1,
                     [committee_decision |-> "Pending", final_decision |-> "Pending",
                      decided_by |-> NoUser, decided_at |-> NoTime])
  /\ now = 0
  /\ InitSessions
  /\ InitLoaded

NextAgg ==
  \/ \E u \in EvaluatorIds, r \in AggRoleInputs : AdminAssign(1, u, r)
  \/ \E u \in EvaluatorIds : AdminDeleteUser(u)
  \/ \E u \in EvaluatorIds : EvaluatorOpen(u, 1)
  \/ \E u \in EvaluatorIds, d \in AggRatingInputs, c \in LifecycleComments : EvaluatorSubmit(u, d, c)

SpecAgg == InitAgg /\ [][NextAgg]_vars

\* The approver specification: one evaluation of any level path and any rule
\* table, whose evaluator votes Partially Demonstrated throughout and whose
\* approvers submit the wider ratings.
\* the approver who acts in the approver specification
FirstApprover == NumEvaluators + 1

NextAppr ==
  \/ \E u \in VoterIds, r \in RoleInputs : AdminAssign(1, u, r)
  \/ \E u \in VoterIds : EvaluatorOpen(u, 1)
  \/ \E u \in VoterIds :
       EvaluatorSubmit(u, PrefixVote(0, "Partially Demonstrated"), "")
  \/ AdminMoveToApprover(1)
  \/ \E a \in {FirstApprover} : AdminDeleteUser(a)
  \/ \E a \in {FirstApprover} : ApproverOpen(a, 1)
  \/ \E a \in {FirstApprover}, d \in ApprRatingInputs, c \in LifecycleComments :
       ApproverUpsert(a, d, c)
  \/ \E a \in {FirstApprover} : ApproverCompute(a)
  \/ \E a \in {FirstApprover} : ApproverSetDecision(a)
  \/ \E a \in {FirstApprover} : ApproverClose(a)

SpecAppr == InitAgg /\ [][NextAppr]_vars

----------------------------------------------------------------------------
(* auth.py: ensure_bootstrap_users, run by several process instances; each   *)
(* call of db.py is its own transaction                                      *)

\* db.py 161-163: the rows with the user name (none: None)
user_by_username(username) == {r \in accounts : r.username = username}

\* the AUTOINCREMENT id of the next row of table users
next_user_id ==
  IF accounts = {} THEN 1
  ELSE 1 + (CHOOSE m \in {r.id : r \in accounts} : \A r \in accounts : r.id <= m)

\* db.py 187-196: username is UNIQUE, a second row with the name raises
\* sqlite3.IntegrityError; by stands for the fields the inserting run computed
create_user(username, role, by) ==
  /\ user_by_username(username) = {}
  /\ accounts' = accounts \cup {[id |-> next_user_id, username |-> username,
                                 role |-> role, by |-> by]}
  /\ users' = users \cup {next_user_id}

\* the run goes on with the next account, or returns after the last
boot_advance(i) ==
  IF boot[i].k < Len(BOOTSTRAP)
  THEN [pc |-> "check", k |-> boot[i].k + 1]
  ELSE [pc |-> "done", k |-> boot[i].k]

\* mutant: the IntegrityError leaves ensure_bootstrap_users
ensure_one_except_reraises(i) == [pc |-> "raised", k |-> boot[i].k]

\* auth.py 70-72: except sqlite3.IntegrityError: return
ensure_one_except(i) == boot_advance(i)

\* auth.py 54-60: ensure_one up to the lookup
BootCheck(i) ==
  /\ boot[i].pc = "check"
  /\ boot' = [boot EXCEPT ![i] =
                IF user_by_username(BOOTSTRAP[boot[i].k].username) # {}
                THEN boot_advance(i)
                ELSE [pc |-> "insert", k |-> boot[i].k]]
  /\ UNCHANGED <<workbook, loads, cache_id, getter, rules, overwritten, store, now, ev_form, appr>>

\* auth.py 62-72: the INSERT of ensure_one
BootInsert(i) ==
  /\ boot[i].pc = "insert"
  /\ LET b == BOOTSTRAP[boot[i].k]
     IN IF user_by_username(b.username) # {}
        THEN /\ boot' = [boot EXCEPT ![i] = ensure_one_except(i)]
             /\ UNCHANGED <<users, accounts>>
        ELSE /\ create_user(b.username, b.role, i)
             /\ boot' = [boot EXCEPT ![i] = boot_advance(i)]
  /\ UNCHANGED <<workbook, loads, cache_id, getter, rules, overwritten, evaluations, assignments, responses,
                 approver_responses, decisions, now, ev_form, appr>>

\* the store after init_db, before any account exists
InitBoot ==
  /\ rules \in LifecycleRuleTables
  /\ users = {}
  /\ accounts = {}
  /\ boot = [i \in BootRuns |-> [pc |-> "check", k |-> 1]]
  /\ overwritten = {}
  /\ evaluations = EmptyTable
  /\ assignments = EmptyTable
  /\ responses = EmptyTable
  /\ approver_responses = EmptyTable
  /\ decisions = EmptyTable
  /\ now = 0
  /\ InitSessions
  /\ InitLoaded

NextBoot ==
  \/ \E i \in BootRuns : BootCheck(i)
  \/ \E i \in BootRuns : BootInsert(i)

\* every run that can take a step eventually takes it
SpecBoot ==
  /\ InitBoot
  /\ [][NextBoot]_vars
  /\ \A i \in BootRuns : WF_vars(BootCheck(i) \/ BootInsert(i))

\* The store specification: the upsert functions of db.py called in any
\* order with any arguments, on one evaluation.
CallUpsertResponse(eval_id, user_id, dims, comment) ==
  /\ upsert_response(eval_id, user_id, dims, comment)
  /\ UNCHANGED <<workbook, loads, cache_id, getter, rules, users, accounts, boot, evaluations, assignments,
                 approver_responses, decisions, now, ev_form, appr>>

CallUpsertApproverResponse(eval_id, approver_user_id, dims, comment) ==
  /\ upsert_approver_response(eval_id, approver_user_id, dims, comment)
  /\ UNCHANGED <<workbook, loads, cache_id, getter, rules, users, accounts, boot, evaluations, assignments, responses,
                 decisions, now, ev_form, appr>>

\* one OPEN evaluation of the first level path, every evaluator assigned
InitDb ==
  /\ rules \in LifecycleRuleTables
  /\ InitAccounts
  /\ evaluations = Put(EmptyTable, 1,
                       [level_path |-> LEVEL_PATHS[1],
                        target_level |-> level_path_to_target_level(LEVEL_PATHS[1]),
                        status |-> "OPEN"])
  /\ assignments = [k \in {<<1, u>> : u \in EvaluatorIds} |-> "HRBP"]
  /\ responses = EmptyTable
  /\ approver_responses = EmptyTable
  /\ decisions = Put(EmptyTable, 1,
                     [committee_decision |-> "Pending", final_decision |-> "Pending",
                      decided_by |-> NoUser, decided_at |-> NoTime])
  /\ now = 0
  /\ InitSessions
  /\ InitLoaded

NextDb ==
  \/ \E u \in EvaluatorIds, d \in RatingInputs, c \in CommentInputs :
       CallUpsertResponse(1, u, d, c)
  \/ \E a \in ApproverIds, d \in DbRatingInputs, c \in CommentInputs :
       CallUpsertApproverResponse(1, a, d, c)

SpecDb == InitDb /\ [][NextDb]_vars

----------------------------------------------------------------------------
(* The loading specification: the process starts without get_rules._cache;  *)
(* the threads call get_rules on the workbook found, and the administrator  *)
(* creates and recomputes an evaluation of a level path of the cached Rules. *)

\* Sheet2 with one cell of the critical matrix, one level path (in B11:F11
\* and in A25:A29), one dimension name or one minimum replaced
WithCell(wb, i, j, cell) == [wb EXCEPT !.matrix[<<i, j>>] = cell]
WithPath(wb, c, tokens) ==
  [wb EXCEPT !.header[c] = Text(tokens), !.min_rows[c].path = Text(tokens)]
WithDimension(wb, k, cell) == [wb EXCEPT !.dims[k] = cell]
WithMinDemo(wb, k, cell) == [wb EXCEPT !.min_rows[k].cell = cell]

\* the sheet of the first iteration's rules
BaseWorkbook == Sheet2Of(RuleTable(LEVEL_RULES))

\* values of a cell of the critical matrix: 2, 1.9, 1, empty, texts
CriticalCellInputs ==
  {Num(20), Num(19), Num(10), NoneCell, Text(<<"yes">>), Text(<<"1">>), Text(<<"0">>)}

\* level paths of column B: a last segment without a weight table, an arrow
\* level_path_to_target_level does not split at, "->", and no arrow
HeaderPathInputs ==
  { <<"Specialist", ARROW, "Manager">>,
    <<"Specialist", HEAVY_ARROW, "Senior Specialist">>,
    <<"Specialist", ASCII_ARROW, "Senior Specialist">>,
    <<"Specialist", "Senior Specialist">> }

\* minimum cells of row 25: empty, a text with a Persian digit, a number
MinDemoCellInputs ==
  {NoneCell, Text(<<"at", "least", "<U+06F5>">>), Text(<<"all">>), Num(40)}

WorkbookInputs ==
  {BaseWorkbook}
  \cup {WithCell(BaseWorkbook, i, 1, x) : i \in {0, 1}, x \in CriticalCellInputs}
  \cup {WithPath(BaseWorkbook, 1, p) : p \in HeaderPathInputs}
  \cup {WithDimension(BaseWorkbook, NDims, NoneCell)}
  \cup {WithMinDemo(BaseWorkbook, 1, x) : x \in MinDemoCellInputs}

InitRules ==
  /\ workbook \in WorkbookInputs
  /\ rules = NoRules
  /\ loads = 0
  /\ cache_id = 0
  /\ getter = [t \in Threads |-> GetterIdle]
  /\ InitAccounts
  /\ evaluations = EmptyTable
  /\ assignments = EmptyTable
  /\ responses = EmptyTable
  /\ approver_responses = EmptyTable
  /\ decisions = EmptyTable
  /\ now = 0
  /\ InitSessions

NextRules ==
  \/ \E t \in Threads : GetRulesCheck(t)
  \/ \E t \in Threads : GetRulesLoad(t)
  \/ \E t \in Threads : GetRulesSet(t)
  \/ \E t \in Threads : GetRulesReturn(t)
  \/ \E c \in 1..Len(rules.level_paths) : CreateEvaluation(rules.level_paths[c], "")
  \/ \E e \in EvalIds : AdminRecompute(e)

SpecRules == InitRules /\ [][NextRules]_vars

----------------------------------------------------------------------------
(* upsert_response called for an assigned account that has no vote yet, as  *)
(* a page run without anything interleaved calls it                         *)
StoreFirstVote(eval_id, user_id, dims) ==
  /\ get_assignment(eval_id, user_id)
  /\ ~get_response(eval_id, user_id)
  /\ CallUpsertResponse(eval_id, user_id, dims, "")

----------------------------------------------------------------------------
(* The pair specification: two evaluations of the first level path, under   *)
(* any rule table; the administrator assigns the evaluators to either and   *)
(* upsert_response stores the vote of an assigned evaluator without one, so *)
(* that two vote tables that differ in one rating stand side by side.       *)

PairEvalIds == {1, 2}

\* two votes that become the third when the rating of dimension index 5,
\* Partially Demonstrated in one and Not Demonstrated in the other, is raised
PairRatingInputs ==
  {PrefixVote(5, "Partially Demonstrated"),
   [PrefixVote(5, "Partially Demonstrated") EXCEPT ![6] = "Not Demonstrated"],
   PrefixVote(6, "Partially Demonstrated")}

\* roles of the target level of the first level path
PairRoleInputs == {"Second Line Manager", "HRBP"}

InitPair ==
  /\ rules \in RuleTables
  /\ InitAccounts
  /\ evaluations = [e \in PairEvalIds |->
                      [level_path |-> LEVEL_PATHS[1],
                       target_level |-> level_path_to_target_level(LEVEL_PATHS[1]),
                       status |-> "OPEN"]]
  /\ assignments = EmptyTable
  /\ responses = EmptyTable
  /\ approver_responses = EmptyTable
  /\ decisions = [e \in PairEvalIds |->
                    [committee_decision |-> "Pending", final_decision |-> "Pending",
                     decided_by |-> NoUser, decided_at |-> NoTime]]
  /\ now = 0
  /\ InitSessions
  /\ InitLoaded

NextPair ==
  \/ \E e \in PairEvalIds, u \in EvaluatorIds, r \in PairRoleInputs : AdminAssign(e, u, r)
  \/ \E e \in PairEvalIds, u \in EvaluatorIds, d \in PairRatingInputs :
       StoreFirstVote(e, u, d)

SpecPair == InitPair /\ [][NextPair]_vars

----------------------------------------------------------------------------
(* The roles specification: every account is an evaluator's; one evaluation *)
(* of any level path; the administrator assigns any account with any role   *)
(* the level allows, the same role to several accounts included, and        *)
(* upsert_response stores the vote of an assigned account without one.      *)

InitRoles ==
  /\ rules \in LifecycleRuleTables
  /\ users = UserIds
  /\ accounts = {[id |-> u, username |-> <<"user", u>>, role |-> "EVALUATOR", by |-> 0] :
                   u \in UserIds}
  /\ boot = [i \in BootRuns |-> [pc |-> "done", k |-> Len(BOOTSTRAP)]]
  /\ overwritten = {}
  /\ \E p \in LevelPathSet :
       evaluations = Put(EmptyTable, 1,
                         [level_path |-> p,
                          target_level |-> level_path_to_target_level(p),
                          status |-> "OPEN"])
  /\ assignments = EmptyTable
  /\ responses = EmptyTable
  /\ approver_responses = EmptyTable
  /\ decisions = Put(EmptyTable, 1,
                     [committee_decision |-> "Pending", final_decision |-> "Pending",
                      decided_by |-> NoUser, decided_at |-> NoTime])
  /\ now = 0
  /\ InitSessions
  /\ InitLoaded

NextRoles ==
  \/ \E u \in UserIds, r \in AggRoleInputs : AdminAssign(1, u, r)
  \/ \E u \in UserIds, d \in RatingInputs : StoreFirstVote(1, u, d)

SpecRoles == InitRoles /\ [][NextRoles]_vars

----------------------------------------------------------------------------
(* Claims about committee_aggregate, checked under SpecAgg *)

\* the evaluators assigned to e, and those of them with a stored vote
Assigned(e) == {u \in UserIds : u \in users /\ <<e, u>> \in DOMAIN assignments}
Responded(e) == {u \in Assigned(e) : <<e, u>> \in DOMAIN responses}
Voted(e) == {u \in UserIds : <<e, u>> \in DOMAIN responses}
IsGated(e) == evaluations[e].target_level \in {"Principal", "Distinguished"}
CriticalOf(e) == rules.critical_by_path[evaluations[e].level_path]
MinDemoOf(e) == rules.min_demo_by_path[evaluations[e].level_path]
ResultAt(agg, i) == agg.per_dim[i + 1].result
DemoCount(agg) == Cardinality({i \in 0..7 : ResultAt(agg, i) = "Demonstrated"})
CriticalAllDemonstrated(e, agg) ==
  \A i \in CriticalOf(e) : ResultAt(agg, i) = "Demonstrated"

\* C1 as stated: whenever the set of user ids assigned to e is non-empty and
\* differs from the set of user ids with a stored vote row for e,
\* committee_aggregate(e) is Pending.
C1_PendingWhenVoteRowsDiffer ==
  \A e \in DOMAIN evaluations :
    (Assigned(e) # {} /\ Voted(e) # Assigned(e)) =>
      committee_aggregate(e).committee_decision = "Pending"

\* C1 as amended: whenever the evaluators assigned to e are a non-empty set that
\* differs from the set of assigned evaluators with a stored vote,
\* committee_aggregate(e) is Pending with an empty per-dimension list and the
\* missing/responded/assigned counts, for every target level and every
\* content of the votes; a vote row of a user who is not assigned is not counted.
C1_PendingWhenVotesMissing ==
  \A e \in DOMAIN evaluations :
    (Assigned(e) # {} /\ Responded(e) # Assigned(e)) =>
      LET agg == committee_aggregate(e)
      IN /\ agg.committee_decision = "Pending"
         /\ agg.per_dim = <<>>
         /\ agg.missing_count = Cardinality(Assigned(e) \ Responded(e))
         /\ agg.responded_count = Cardinality(Responded(e))
         /\ agg.assigned_count = Cardinality(Assigned(e))

\* a gated evaluation with one vote stored and one assigned evaluator missing
C1_Witness ==
  \E e \in DOMAIN evaluations :
    /\ IsGated(e)
    /\ Responded(e) # {}
    /\ Responded(e) # Assigned(e)
    /\ \E u \in Responded(e) : responses[<<e, u>>].dims[1] = "Demonstrated"

\* C2: for an ungated evaluation whose assigned evaluators have all voted, a
\* critical dimension whose aggregated result is not Demonstrated makes the
\* committee decision Reject, however many dimensions are Demonstrated.
C2_CriticalVeto ==
  \A e \in DOMAIN evaluations :
    LET agg == committee_aggregate(e)
    IN (/\ ~IsGated(e)
        /\ Responded(e) = Assigned(e)
        /\ ~CriticalAllDemonstrated(e, agg))
       => agg.committee_decision = "Reject"

\* a critical dimension fails while the Demonstrated count reaches the minimum
C2_Witness ==
  \E e \in DOMAIN evaluations :
    LET agg == committee_aggregate(e)
    IN /\ ~IsGated(e)
       /\ Assigned(e) # {}
       /\ Responded(e) = Assigned(e)
       /\ ~CriticalAllDemonstrated(e, agg)
       /\ MinDemoOf(e) > 0
       /\ DemoCount(agg) >= MinDemoOf(e)

VoteWeight(e, u, i) ==
  IF /\ responses[<<e, u>>].dims[i + 1] = "Demonstrated"
     /\ u \in Assigned(e)
     /\ assignments[<<e, u>>] \in DOMAIN LEVEL_WEIGHTS[evaluations[e].target_level]
  THEN LEVEL_WEIGHTS[evaluations[e].target_level][assignments[<<e, u>>]]
  ELSE 0

RECURSIVE SumVoteWeights(_, _, _)
SumVoteWeights(S, e, i) ==
  IF S = {} THEN 0
  ELSE LET u == CHOOSE x \in S : TRUE
       IN VoteWeight(e, u, i) + SumVoteWeights(S \ {u}, e, i)

\* C4: for every dimension index, the demonstrated weight committee_aggregate
\* computes is the sum, over the stored votes, of the weight of the voter's
\* current assignment role where the rating is exactly Demonstrated, and of
\* zero where it is Partially Demonstrated or Not Demonstrated.
C4_DemoWeightIsSum ==
  \A e \in DOMAIN evaluations :
    Responded(e) = Assigned(e) =>
      LET agg == committee_aggregate(e)
      IN \A i \in 0..7 :
           agg.per_dim[i + 1].demo_weight = SumVoteWeights(Voted(e), e, i)

\* two voters with different roles: on one dimension the first rates
\* Demonstrated and the second Partially Demonstrated, so only the first one's
\* weight is counted; on another the ratings are Not Demonstrated and Partially
\* Demonstrated, and nothing is counted
C4_Witness ==
  \E e \in DOMAIN evaluations :
    /\ Responded(e) = Assigned(e)
    /\ \E u, v \in Responded(e), i, j \in 0..7 :
         /\ assignments[<<e, u>>] # assignments[<<e, v>>]
         /\ responses[<<e, u>>].dims[i + 1] = "Demonstrated"
         /\ responses[<<e, v>>].dims[i + 1] = "Partially Demonstrated"
         /\ responses[<<e, u>>].dims[j + 1] = "Not Demonstrated"
         /\ responses[<<e, v>>].dims[j + 1] = "Partially Demonstrated"
         /\ VoteWeight(e, u, i) > 0
         /\ LET agg == committee_aggregate(e)
            IN /\ agg.per_dim[i + 1].demo_weight = VoteWeight(e, u, i)
               /\ agg.per_dim[j + 1].demo_weight = 0

\* C5: a dimension whose demonstrated weight is at least 0.70 aggregates to
\* Demonstrated, one whose weight is at least 0.40 and below 0.70 to Partially
\* Demonstrated, any other to Not Demonstrated, for every level path.
C5_ThresholdMapping ==
  \A e \in DOMAIN evaluations :
    Responded(e) = Assigned(e) =>
      LET agg == committee_aggregate(e)
      IN \A i \in 0..7 :
           LET w == agg.per_dim[i + 1].demo_weight
           IN ResultAt(agg, i) = IF w >= 70 THEN "Demonstrated"
                                 ELSE IF w >= 40 THEN "Partially Demonstrated"
                                 ELSE "Not Demonstrated"

\* a dimension whose demonstrated weight is exactly 0.70
C5_Witness ==
  \E e \in DOMAIN evaluations :
    /\ Responded(e) = Assigned(e)
    /\ Assigned(e) # {}
    /\ LET agg == committee_aggregate(e)
       IN \E i \in 0..7 :
            /\ agg.per_dim[i + 1].demo_weight = 70
            /\ ResultAt(agg, i) = "Demonstrated"

\* C6 as stated: for a Principal or Distinguished evaluation committee_aggregate
\* returns RecommendationOnly for every stored set of assignments and votes.
C6_AlwaysRecommendationOnly ==
  \A e \in DOMAIN evaluations :
    IsGated(e) => committee_aggregate(e).committee_decision = "RecommendationOnly"

\* C6 as amended: for a Principal or Distinguished evaluation committee_aggregate
\* returns Pending while an assigned evaluator has no stored vote and
\* RecommendationOnly otherwise, whatever the per-dimension results are; it
\* never returns Confirmed or Reject.
C6_RecommendationOnlyUnlessPending ==
  \A e \in DOMAIN evaluations :
    IsGated(e) =>
      committee_aggregate(e).committee_decision =
        IF Assigned(e) # {} /\ Responded(e) # Assigned(e)
        THEN "Pending" ELSE "RecommendationOnly"

\* a gated evaluation whose votes are complete and whose per-dimension results
\* would give Confirmed under the decision rule
C6_Witness ==
  \E e \in DOMAIN evaluations :
    /\ IsGated(e)
    /\ Assigned(e) # {}
    /\ Responded(e) = Assigned(e)
    /\ LET agg == committee_aggregate(e)
       IN /\ CriticalAllDemonstrated(e, agg)
          /\ DemoCount(agg) >= MinDemoOf(e)
          /\ agg.committee_decision = "RecommendationOnly"

----------------------------------------------------------------------------
(* Claims about the lifecycle, checked under Spec *)

StatusOf(e) == evaluations[e].status
FinalOf(e) == decisions[e].final_decision

\* C7: for a gated evaluation, in every state a reader of the store can
\* observe, an approver vote is stored if and only if the stored final decision
\* is Confirmed or Reject, if and only if the status is CLOSED.
C7_ApproverSubmissionAtomic ==
  \A e \in DOMAIN evaluations :
    IsGated(e) =>
      /\ (e \in DOMAIN approver_responses) <=> (FinalOf(e) \in {"Confirmed", "Reject"})
      /\ (FinalOf(e) \in {"Confirmed", "Reject"}) <=> (StatusOf(e) = "CLOSED")

\* C8: once the status of an evaluation is CLOSED no step changes it, and the
\* only status changes are OPEN to READY_FOR_APPROVER, OPEN to CLOSED and
\* READY_FOR_APPROVER to CLOSED.
C8_ClosedIsTerminal ==
  [][\A e \in DOMAIN evaluations :
       /\ StatusOf(e) = "CLOSED" => evaluations'[e].status = "CLOSED"
       /\ evaluations'[e].status # StatusOf(e) =>
            <<StatusOf(e), evaluations'[e].status>> \in
              { <<"OPEN", "READY_FOR_APPROVER">>, <<"OPEN", "CLOSED">>,
                <<"READY_FOR_APPROVER", "CLOSED">> }]_vars

\* C9: an evaluation whose status is READY_FOR_APPROVER has target level
\* Principal or Distinguished; no step takes a gated evaluation from OPEN to
\* CLOSED; and a step that closes an ungated evaluation is the administrator's
\* Close action taken on an OPEN evaluation.
C9_TransitionLegality ==
  /\ [](\A e \in DOMAIN evaluations : StatusOf(e) = "READY_FOR_APPROVER" => IsGated(e))
  /\ [][\A e \in DOMAIN evaluations :
          /\ (IsGated(e) /\ StatusOf(e) = "OPEN") => evaluations'[e].status # "CLOSED"
          /\ (~IsGated(e) /\ StatusOf(e) # "CLOSED" /\ evaluations'[e].status = "CLOSED")
               => (StatusOf(e) = "OPEN" /\ AdminClose(e))]_vars

\* a gated evaluation closed by an approver's submission
C9_Witness ==
  \E e \in DOMAIN evaluations :
    /\ IsGated(e)
    /\ StatusOf(e) = "CLOSED"
    /\ e \in DOMAIN approver_responses
    /\ FinalOf(e) \in {"Confirmed", "Reject"}

\* C10: for a gated evaluation the stored final decision leaves Pending only
\* by an approver's submission, which sets it to Confirmed or Reject, and once
\* it is set no step writes final_decision, decided_by or decided_at again.
C10_FinalDecisionSetOnce ==
  [][\A e \in DOMAIN decisions :
       IsGated(e) =>
         /\ FinalOf(e) # "Pending" =>
              /\ decisions'[e].final_decision = decisions[e].final_decision
              /\ decisions'[e].decided_by = decisions[e].decided_by
              /\ decisions'[e].decided_at = decisions[e].decided_at
         /\ (FinalOf(e) = "Pending" /\ decisions'[e].final_decision # "Pending") =>
              decisions'[e].final_decision \in {"Confirmed", "Reject"}]_vars

\* C11: once the administrator has closed an evaluation of an ungated level
\* whose saved committee decision is Confirmed or Reject, the stored final
\* decision equals the committee decision.
C11_FinalMirrorsCommittee ==
  \A e \in DOMAIN evaluations :
    (/\ ~IsGated(e)
     /\ StatusOf(e) = "CLOSED"
     /\ decisions[e].committee_decision \in {"Confirmed", "Reject"})
      => FinalOf(e) = decisions[e].committee_decision

\* C13: a call of committee_aggregate leaves every stored row unchanged (the
\* approver page's call is followed by no write), a second call made after it
\* returns the same result, and the stored committee_decision changes only
\* by the administrator's recompute-and-save step.
C13_AggregateIsPureRead ==
  [][/\ \A a \in ApproverIds, e \in EvalIds :
          ApproverOpen(a, e) =>
            /\ UNCHANGED store
            /\ committee_aggregate(e)' = committee_aggregate(e)
     /\ \A e \in DOMAIN decisions :
          decisions'[e].committee_decision # decisions[e].committee_decision
            => AdminRecompute(e)]_vars

\* the approver page has rendered the aggregate of an evaluation whose stored
\* committee decision is still Pending
C13_Witness ==
  \E a \in ApproverIds :
    /\ appr[a].pc = "form"
    /\ decisions[appr[a].eval_id].committee_decision = "Pending"
    /\ committee_aggregate(appr[a].eval_id).committee_decision = "RecommendationOnly"

\* C15: a write of an approver's submission made while the status of the
\* evaluation is not READY_FOR_APPROVER changes nothing in the store: no
\* approver vote is stored or replaced, and the Decision record and the
\* status are unchanged.
C15_SubmissionRefusedUnlessReady ==
  [][\A a \in ApproverIds :
       (/\ appr[a].pc # "idle"
        /\ appr'[a] # appr[a]
        /\ StatusOf(appr[a].eval_id) # "READY_FOR_APPROVER")
         => UNCHANGED <<approver_responses, decisions, evaluations>>]_vars

\* C18: a step that creates an evaluation stores it with status OPEN together
\* with its Decision record, committee_decision and final_decision Pending;
\* in every state the evaluations and the Decision records are the same ids,
\* and a creation that fails changes neither table.
C18_EvaluationHasDecision ==
  /\ [](DOMAIN decisions = DOMAIN evaluations)
  /\ [][/\ \A e \in (DOMAIN evaluations') \ DOMAIN evaluations :
            /\ evaluations'[e].status = "OPEN"
            /\ e \in DOMAIN decisions'
            /\ decisions'[e].committee_decision = "Pending"
            /\ decisions'[e].final_decision = "Pending"
        /\ \A p \in LifecyclePathInputs, x \in RaiseInputs :
             (CreateEvaluation(p, x) /\ x # "") => UNCHANGED <<evaluations, decisions>>]_vars

\* an evaluation created and not yet touched, with its Decision record
C18_Witness ==
  \E e \in DOMAIN evaluations :
    /\ StatusOf(e) = "OPEN"
    /\ e \in DOMAIN decisions
    /\ decisions[e] = [committee_decision |-> "Pending", final_decision |-> "Pending",
                       decided_by |-> NoUser, decided_at |-> NoTime]

----------------------------------------------------------------------------
(* Claims about approver_final_decision, checked under SpecAppr *)

\* the approver's stored ratings of e
ApproverDims(e) == approver_responses[e].dims

----------------------------------------------------------------------------
(* Claims about the vote tables, checked under SpecDb *)

\* C14: a call upsert_response(e, u, dims, comment) leaves
\* exactly one vote row for the pair (e, u), whose ratings and comment are
\* those of the call, whatever row the pair had before; the pairs with a
\* stored row are those of before and (e, u).
C14_VoteUpsertRoundTrip ==
  [][\A u \in EvaluatorIds, d \in RatingInputs, c \in CommentInputs :
       CallUpsertResponse(1, u, d, c) =>
         /\ responses'[<<1, u>>] = [dims |-> d, comment |-> c]
         /\ DOMAIN responses' = DOMAIN responses \cup {<<1, u>>}]_vars

\* a stored vote row that was written over an earlier row with other ratings
C14_Witness ==
  \E k \in DOMAIN responses :
    /\ <<"responses", k[1], k[2]>> \in overwritten
    /\ responses[k].dims \in RatingInputs
    /\ responses[k].comment = "comment"

\* C16: whatever the order of the submissions of different evaluators, a call
\* upsert_response(e, u, ...) changes only the vote row of (e, u): the rows of
\* the other evaluators, the assignments, the Decision record and the status
\* are unchanged, and the row of (e, u) holds all 8 ratings of the call.
C16_UpsertTouchesOwnRowOnly ==
  [][\A u \in EvaluatorIds, d \in RatingInputs, c \in CommentInputs :
       CallUpsertResponse(1, u, d, c) =>
         /\ \A k \in DOMAIN responses :
              k # <<1, u>> => (k \in DOMAIN responses' /\ responses'[k] = responses[k])
         /\ UNCHANGED <<assignments, decisions, evaluations, approver_responses>>
         /\ \A i \in 1..8 : responses'[<<1, u>>].dims[i] = d[i]]_vars

\* two evaluators hold vote rows with different ratings for the evaluation,
\* one of them resubmitted after the other's submission
C16_Witness ==
  \E u, v \in EvaluatorIds :
    /\ u # v
    /\ <<1, u>> \in DOMAIN responses
    /\ <<1, v>> \in DOMAIN responses
    /\ responses[<<1, u>>].dims # responses[<<1, v>>].dims
    /\ <<"responses", 1, u>> \in overwritten
    /\ <<1, u>> \in DOMAIN assignments

\* C17: a call upsert_approver_response(e, a, dims, comment) with 8 ratings
\* leaves one approver vote row for e, holding the approver id, the ratings
\* and the comment of the call only, also when the row before was another
\* approver's; the rows of other evaluations are unchanged.
C17_OneApproverVote ==
  [][\A a \in ApproverIds, d \in DbRatingInputs, c \in CommentInputs :
       (CallUpsertApproverResponse(1, a, d, c) /\ Len(d) = 8) =>
         /\ approver_responses'[1] = [approver_user_id |-> a, dims |-> d, comment |-> c]
         /\ DOMAIN approver_responses' = DOMAIN approver_responses \cup {1}
         /\ \A e \in DOMAIN approver_responses :
              e # 1 => approver_responses'[e] = approver_responses[e]]_vars

\* the approver vote of the evaluation was written over another approver's
C17_Witness ==
  /\ 1 \in DOMAIN approver_responses
  /\ <<"approver_responses", 1>> \in overwritten
  /\ approver_responses[1].dims \in RatingInputs
  /\ approver_responses[1].comment = "comment"

----------------------------------------------------------------------------
(* Claims about ensure_bootstrap_users, checked under SpecBoot *)

BootDone == \A i \in BootRuns : boot[i].pc = "done"

\* C20: under every interleaving of the runs of ensure_bootstrap_users no run
\* raises and every run completes; no two user rows share a user name, a
\* stored row is never altered by a later run, and once the runs are done
\* each bootstrap user name has its row, with its role.
C20_BootstrapTolerant ==
  /\ [](\A i \in BootRuns : boot[i].pc # "raised")
  /\ [](\A r1, r2 \in accounts : r1.username = r2.username => r1 = r2)
  /\ [](BootDone =>
          \A k \in 1..Len(BOOTSTRAP) :
            \E r \in accounts : r.username = BOOTSTRAP[k].username
                                /\ r.role = BOOTSTRAP[k].role)
  /\ [][accounts \subseteq accounts']_vars
  /\ <>BootDone

\* a run that found no row is about to insert a user name another run has
\* inserted since
C20_Witness ==
  \E i \in BootRuns :
    /\ boot[i].pc = "insert"
    /\ \E r \in user_by_username(BOOTSTRAP[boot[i].k].username) : r.by # i

----------------------------------------------------------------------------
(* Claims about the rule loader, checked under SpecRules *)

\* the threads whose call of get_rules has returned
Returned == {t \in Threads : getter[t].pc = "done"}

\* C21: over every sequence of get_rules calls, concurrent first calls
\* included, load_rules_from_sheet2 returns a Rules at most once, every
\* call that has returned has received the same instance, and the
\* recomputation of a committee decision leaves the cached Rules as it was.
C21_LoadedExactlyOnce ==
  [][ /\ loads' <= 1
      /\ \A t1 \in Returned', t2 \in Returned' : getter'[t1].got = getter'[t2].got
      /\ (\E e \in EvalIds : AdminRecompute(e)) => rules' = rules ]_vars

\* a cell of the critical matrix that is exactly 0 or 1, and exactly 1, as a
\* number or as a numeric text
ExactlyZeroOrOne(cell) ==
  \/ cell.kind = "number" /\ cell.tenths \in {0, 10}
  \/ cell.kind = "text" /\ cell.tokens \in {<<"0">>, <<"1">>}
ExactlyOne(cell) ==
  \/ cell.kind = "number" /\ cell.tenths = 10
  \/ cell.kind = "text" /\ cell.tokens = <<"1">>

\* C22: once load_rules_from_sheet2 has returned a Rules, every cell of the
\* critical matrix of the sheet is exactly 0 or 1, and in the cached Rules a
\* dimension index is critical for a level path if and only if its cell is
\* exactly 1.
C22_CriticalMatrixValidated ==
  /\ loads > 0 =>
       \A i \in DimIdx, j \in PathCols : ExactlyZeroOrOne(workbook.matrix[<<i, j>>])
  /\ cache_id # 0 =>
       \A i \in DimIdx, j \in PathCols :
         i \in rules.critical_by_path[rules.level_paths[j]]
           <=> ExactlyOne(workbook.matrix[<<i, j>>])

\* C23: every stored evaluation has a target level that is one of the five
\* levels of the weight tables.
C23_TargetLevelRecognized ==
  \A e \in DOMAIN evaluations : evaluations[e].target_level \in DOMAIN LEVEL_WEIGHTS

----------------------------------------------------------------------------
(* Claims about concurrent sessions, checked under Spec *)

\* no approver is between the first and the last write of a submission for e
SubmissionsFinished(e) ==
  \A a \in ApproverIds : appr[a].eval_id = e => appr[a].pc \in {"idle", "form"}

\* C24: for a gated evaluation with a stored approver vote, once every
\* approver's submission has finished, the stored final_decision is the
\* decision rule applied to the stored approver vote and decided_by is the
\* approver of that vote.
C24_FinalAgreesWithStoredVote ==
  \A e \in DOMAIN evaluations :
    (/\ IsGated(e)
     /\ e \in DOMAIN approver_responses
     /\ SubmissionsFinished(e))
    => /\ decisions[e].final_decision =
            decision_from_dimension_results(approver_responses[e].dims,
                                            evaluations[e].level_path)
       /\ decisions[e].decided_by = approver_responses[e].approver_user_id

\* C25: whenever the status of an evaluation goes from READY_FOR_APPROVER to
\* CLOSED, at least one evaluator vote of it is stored and every assigned
\* evaluator has a stored vote.
C25_ClosedOnlyWithAllVotes ==
  [][ \A e \in DOMAIN evaluations :
        (StatusOf(e) = "READY_FOR_APPROVER" /\ StatusOf(e)' = "CLOSED")
        => /\ Voted(e) # {}
           /\ Responded(e) = Assigned(e) ]_vars

\* C27: a step that stores or changes an evaluator vote of an evaluation is
\* taken in a state where the status of the evaluation is not CLOSED.
C27_NoVoteWriteWhenClosed ==
  [][ \A k \in DOMAIN responses' :
        (k \notin DOMAIN responses \/ responses'[k] # responses[k])
        => StatusOf(k[1]) # "CLOSED" ]_vars

----------------------------------------------------------------------------
(* Further claims about committee_aggregate *)

\* the rows of table assignments of evaluation e
AssignmentRows(e) == {k \in DOMAIN assignments : k[1] = e}

\* C26: for an evaluation without any assignment committee_aggregate is not
\* Pending: every dimension has demonstrated weight 0 and result Not
\* Demonstrated, the decision is RecommendationOnly for a gated level and,
\* for an ungated level, Confirmed if the level path has no critical
\* dimension and minimum 0 and Reject otherwise; assigned_count and
\* responded_count are 0.
C26_NoAssignmentsNotPending ==
  \A e \in DOMAIN evaluations :
    AssignmentRows(e) = {}
    => LET agg == committee_aggregate(e)
       IN /\ agg.committee_decision # "Pending"
          /\ Len(agg.per_dim) = NDims
          /\ \A k \in 1..NDims :
               /\ agg.per_dim[k].demo_weight = 0
               /\ agg.per_dim[k].result = "Not Demonstrated"
          /\ agg.committee_decision =
               IF IsGated(e) THEN "RecommendationOnly"
               ELSE IF CriticalOf(e) = {} /\ MinDemoOf(e) = 0 THEN "Confirmed"
               ELSE "Reject"
          /\ agg.assigned_count = 0
          /\ agg.responded_count = 0

\* an ungated evaluation without critical dimensions and with minimum 0,
\* whose only assignment went with the deleted account while the vote of
\* that account's open form was stored afterwards: Confirmed
C26_Witness ==
  \E e \in DOMAIN evaluations :
    /\ AssignmentRows(e) = {}
    /\ users # UserIds
    /\ Voted(e) # {}
    /\ ~IsGated(e)
    /\ CriticalOf(e) = {}
    /\ MinDemoOf(e) = 0
    /\ committee_aggregate(e).committee_decision = "Confirmed"

\* the rank of a dimension result
ResultRank(result) ==
  IF result = "Demonstrated" THEN 2
  ELSE IF result = "Partially Demonstrated" THEN 1
  ELSE 0

\* evaluations e1 and e2 have the same level path and the same assignments,
\* every assigned evaluator has voted in both, and the votes are the same
\* except for the rating of evaluator u on dimension index i, which is
\* Demonstrated in e2 and not in e1
OneRatingRaised(e1, e2, u, i) ==
  /\ evaluations[e1].level_path = evaluations[e2].level_path
  /\ Assigned(e1) = Assigned(e2)
  /\ \A v \in Assigned(e1) : assignments[<<e1, v>>] = assignments[<<e2, v>>]
  /\ Responded(e1) = Assigned(e1)
  /\ Responded(e2) = Assigned(e2)
  /\ u \in Assigned(e1)
  /\ \A v \in Assigned(e1), j \in DimIdx :
       <<v, j>> # <<u, i>>
       => responses[<<e1, v>>].dims[j + 1] = responses[<<e2, v>>].dims[j + 1]
  /\ responses[<<e1, u>>].dims[i + 1] # "Demonstrated"
  /\ responses[<<e2, u>>].dims[i + 1] = "Demonstrated"

\* C28: of two ungated evaluations that are alike except that one rating,
\* Partially Demonstrated or Not Demonstrated in the first, is Demonstrated
\* in the second, the second has no dimension with a lower aggregated result
\* and, if the first's committee decision is Confirmed, is Confirmed too.
C28_DecisionMonotone ==
  \A e1 \in DOMAIN evaluations, e2 \in DOMAIN evaluations :
    (/\ ~IsGated(e1)
     /\ \E u \in Assigned(e1), i \in DimIdx : OneRatingRaised(e1, e2, u, i))
    => LET before == committee_aggregate(e1)
           after == committee_aggregate(e2)
       IN /\ \A k \in 1..NDims :
               ResultRank(after.per_dim[k].result)
                 >= ResultRank(before.per_dim[k].result)
          /\ before.committee_decision = "Confirmed"
               => after.committee_decision = "Confirmed"

\* the first evaluation is Confirmed under a positive minimum, and the one
\* raised rating lifts the result of its dimension to Demonstrated in the
\* second
C28_Witness ==
  \E e1 \in DOMAIN evaluations, e2 \in DOMAIN evaluations :
    /\ ~IsGated(e1)
    /\ \E u \in Assigned(e1), i \in DimIdx :
         /\ OneRatingRaised(e1, e2, u, i)
         /\ responses[<<e1, u>>].dims[i + 1] = "Not Demonstrated"
         /\ ResultAt(committee_aggregate(e1), i) # "Demonstrated"
         /\ ResultAt(committee_aggregate(e2), i) = "Demonstrated"
    /\ MinDemoOf(e1) > 0
    /\ committee_aggregate(e1).committee_decision = "Confirmed"

\* the total of the weights of the roles of a target level's table
RECURSIVE SumWeights(_, _)
SumWeights(target, roles) ==
  IF roles = {} THEN 0
  ELSE LET r == CHOOSE x \in roles : TRUE
       IN LEVEL_WEIGHTS[target][r] + SumWeights(target, roles \ {r})
TableTotal(target) == SumWeights(target, DOMAIN LEVEL_WEIGHTS[target])

\* C29: for every evaluation built by the administrator's assignments and
\* the evaluators' votes, and every dimension, the demonstrated weight of
\* committee_aggregate is at least 0 and at most the total of the target
\* level's weight table.
C29_WeightWithinTable ==
  \A e \in DOMAIN evaluations :
    LET agg == committee_aggregate(e)
    IN \A k \in 1..Len(agg.per_dim) :
         /\ agg.per_dim[k].demo_weight >= 0
         /\ agg.per_dim[k].demo_weight <= TableTotal(evaluations[e].target_level)

----------------------------------------------------------------------------
(* db.py: org_summary_report, and the claim about it, checked under Spec *)

\* NULLIF(x, ''): "None" stands for NULL
NULLIF_empty(x) == IF x = "" THEN "None" ELSE x

\* the rows of evaluations LEFT JOIN decisions: the decision column
report_decision(e) ==
  LET final == IF e \in DOMAIN decisions
               THEN NULLIF_empty(decisions[e].final_decision) ELSE "None"
      committee == IF e \in DOMAIN decisions
                   THEN NULLIF_empty(decisions[e].committee_decision) ELSE "None"
  IN IF final # "None" THEN final
     ELSE IF committee # "None" THEN committee
     ELSE "Pending"

\* in_range: the evaluations whose created_at is in [start_iso, end_iso);
\* the rows are the groups with their counts
org_summary_report(in_range) ==
  {[target_level |-> evaluations[e].target_level,
    decision |-> report_decision(e),
    cnt |-> Cardinality({e2 \in in_range :
                           /\ evaluations[e2].target_level = evaluations[e].target_level
                           /\ report_decision(e2) = report_decision(e)})] :
     e \in in_range}

\* the decision the fallback from final to committee gives: the final
\* decision once one has been taken, else the committee decision once one
\* has been saved, else Pending
FallbackDecision(e) ==
  IF decisions[e].decided_at # NoTime THEN decisions[e].final_decision
  ELSE IF decisions[e].committee_decision # "Pending"
       THEN decisions[e].committee_decision
  ELSE "Pending"

\* C30: org_summary_report counts every evaluation of the range once, in the
\* row of its target level and of its fallback decision.
C30_ReportFallsBackToCommittee ==
  \A e \in DOMAIN evaluations :
    \E row \in org_summary_report(DOMAIN evaluations) :
      /\ row.target_level = evaluations[e].target_level
      /\ row.decision = FallbackDecision(e)
      /\ row.cnt = Cardinality({e2 \in DOMAIN evaluations :
                                  /\ evaluations[e2].target_level = evaluations[e].target_level
                                  /\ FallbackDecision(e2) = FallbackDecision(e)})

====
